---- MODULE Spec2Model ----
(***************************************************************************)
(* Cloudflare dynamic-DNS updater (cdu).  Two source files implement the   *)
(* same cron callback:                                                     *)
(*   src/unnamed/part_000  (commander options, zone check, record check)   *)
(*   src/cdu.ts            (flags.parse, no zone check, no record check)   *)
(* A pass is one run of the async cron callback.  Every `await fetch` is a *)
(* suspension point: the request is in flight until a response action      *)
(* delivers it; the code between two awaits is one atomic step (one        *)
(* JavaScript job).  The CronJob fires the callback on every tick and does *)
(* not wait for the promise it returns, so passes may overlap.  A pass that *)
(* throws rejects a promise nobody handles; whether the runtime then ends   *)
(* the process is not decided by the source, so both outcomes are kept.     *)
(***************************************************************************)
EXTENDS Integers, Sequences, FiniteSets, TLC

\* ------------------------------------------------------------------ bounds
MaxPasses == 2      \* number of cron ticks explored
MaxRecords == 2     \* longest configured record list explored

\* ------------------------------------------------------- values of the model
Absent == "absent"          \* cache.get() of a key never set (undefined)
NoId == "undefined"         \* data?.result[0]?.id of an empty result
ErrBody == "errbody"        \* body of a non-success answer of api.ipify.org
OldAddr == "A0"             \* content of the records before the first pass
Addrs == {"A1", "A2"}       \* public addresses the reflection service reports
Zone == "example.com"       \* the configured zone name
ZoneIdOfProvider == "z1"    \* id the provider knows the zone by
NamePool == <<"a", "b", "c">>

ProviderRecordId(name) ==
    CASE name = "a" -> "ra"
      [] name = "b" -> "rb"
      [] OTHER -> "rc"

Passes == 1..MaxPasses

VARIABLES
    missing,         \* the required option main finds missing, or "none"
    mainState,       \* main: "main" (running), "started" (job.start() done),
                     \* "rejected" (threw before the job was created)
    alive,           \* the process runs (no unhandled rejection has ended it)
    overlap,         \* some tick fired while an earlier pass was still running
    cacheAtUpdate,   \* per pass: what the cache held when the updates went out
    variant,         \* which source file runs: "part_000" or "cdu"
    recordNames,     \* records.split(",")
    cache,           \* cache.get(PREVIOUS_IP_ADDRESS)
    nTicks,          \* cron ticks fired so far
    pc,              \* per pass: the await it is suspended at, or its outcome
    currentIp,       \* per pass: const currentIp
    previousIp,      \* per pass: const previousIp
    zoneId,          \* per pass: const zoneId
    idMap,           \* per pass: idMap, as <<name, id>> pairs in insertion order
    error,           \* per pass: the error the callback's promise rejected with
    pendingLookups,  \* per pass: record names whose lookup fetch is in flight
    pendingUpdates,  \* per pass: indices of updateReqs whose PATCH is in flight
    zoneReqs,        \* per pass: zone lookup requests issued
    lookupReqs,      \* per pass: record lookup requests issued
    updateReqs,      \* per pass: update requests issued
    lookupReplies,   \* per pass: <<name, id>> the provider answered per lookup
    lookupFailures,  \* per pass: names whose lookup was answered with a failure
    updateFailures,  \* per pass: indices of updateReqs answered with a failure
    recAddr,         \* provider: content of every A record
    appliedBy,       \* provider: pass whose update was last applied, per record
    cmpOrder,        \* passes in the order they ran the address comparison
    recAtCompare     \* per pass: recAddr when it ran the address comparison

vars == <<missing, mainState, alive, overlap, cacheAtUpdate, variant, recordNames, cache, nTicks, pc, currentIp, previousIp,
          zoneId, idMap, error, pendingLookups, pendingUpdates, zoneReqs,
          lookupReqs, updateReqs, lookupReplies, lookupFailures,
          updateFailures, recAddr, appliedBy, cmpOrder, recAtCompare>>

passVars == <<pc, currentIp, previousIp, zoneId, idMap, error>>
netVars == <<pendingLookups, pendingUpdates>>
logVars == <<zoneReqs, lookupReqs, updateReqs, lookupReplies, lookupFailures,
            updateFailures>>
providerVars == <<recAddr, appliedBy>>
histVars == <<cmpOrder, recAtCompare>>
procVars == <<missing, mainState, alive>>

Min(a, b) == IF a < b THEN a ELSE b
Range(s) == {s[i] : i \in 1..Len(s)}

NoError == [at |-> "", msg |-> "", arg |-> ""]
FetchError(at) == [at |-> at, msg |-> "fetch rejected", arg |-> ""]

Terminal == {"NoChange", "Success", "Failed"}
\* the callback of pass p has been called and has neither returned nor thrown
Live(p) == pc[p] \notin Terminal \cup {"idle"}

\* ---------------------------------------------------------- responses
\* A fetch either rejects (kind "neterr") or resolves with a Response whose
\* ok flag is true (kind "ok") or false (kind "notok").
NetErr == [kind |-> "neterr", body |-> "", result |-> <<>>]
NotOk == [kind |-> "notok", body |-> ErrBody, result |-> <<>>]
OkText(a) == [kind |-> "ok", body |-> a, result |-> <<>>]
OkJson(r) == [kind |-> "ok", body |-> "", result |-> r]

IpResponses == {NetErr, NotOk} \cup {OkText(a) : a \in Addrs}
ZoneResponses == {NetErr, NotOk, OkJson(<<>>), OkJson(<<ZoneIdOfProvider>>)}
\* a lookup in a zone the provider does not know is never answered with ok
LookupResponses(zid, name) ==
    IF zid = NoId THEN {NetErr, NotOk}
    ELSE {NetErr, NotOk, OkJson(<<>>), OkJson(<<ProviderRecordId(name)>>)}
\* an update of a record the provider does not know is never answered with ok
UpdateResponses(rid) ==
    IF rid = NoId THEN {NetErr, NotOk} ELSE {NetErr, NotOk, OkJson(<<rid>>)}

\* ---------------------------------------------------------- pure helpers
\* getCurrentIp: return res.text() -- res.ok is not looked at
getCurrentIp(res) == res.body

\* data?.result[0]?.id
FirstId(res) == IF Len(res.result) > 0 THEN res.result[1] ELSE NoId

\* faulty variant: res.ok is not looked at, only a rejected fetch fails
ResponseFails_rejectedOnly(res) == res.kind = "neterr"

\* if (!res.ok) throw ...   (fetch rejections propagate as they are)
ResponseFails(res) == res.kind # "ok"

\* faulty variant: the comparison never finds the address unchanged
SkipUpdate_never(prev, ip) == FALSE

\* previousIp === currentIp
SkipUpdate(prev, ip) == prev = ip

\* faulty variant: the cache is not written before the zone lookup starts
CacheSet_notYet(old, ip) == old

\* faulty variant: the key is deleted instead of set
CacheSet_clear(old, ip) == Absent

\* cache.set(PREVIOUS_IP_ADDRESS, currentIp): the value the cache then holds
CacheSet(old, ip) == ip

\* faulty variant: the first fulfilled promise lets the caller go on (Promise.race)
PromiseAllFulfilled_first(pending) == TRUE

\* await Promise.all(promises): resolves once no promise is pending (a
\* rejection is handled where the response arrives)
PromiseAllFulfilled(pending) == pending = {}

RequiredOptions == {"apiKey", "email", "records", "zone"}

\* faulty variant: main does not look at the options
ConfigComplete_unchecked(m) == TRUE

\* !(!apiKey || !email || !records || !zone)
ConfigComplete(m) == m \notin RequiredOptions

\* if (!zoneId) throw ...   only part_000 has the check
ZoneChecked == variant = "part_000"

\* for (const recordName of recordNames) if (!recordIds[recordName]) throw
RecordsChecked == variant = "part_000"

HasKey(m, name) == \E i \in 1..Len(m) : m[i][1] = name
Get(m, name) ==
    IF HasKey(m, name)
    THEN m[CHOOSE i \in 1..Len(m) : m[i][1] = name][2]
    ELSE NoId

\* faulty variant: every closure writes under the last name of the loop (a loop
\* variable shared by the closures)
IdMapSet_lastName(m, name, id) ==
    LET last == recordNames[Len(recordNames)]
    IN  IF HasKey(m, last)
        THEN [i \in 1..Len(m) |-> IF m[i][1] = last THEN <<last, id>> ELSE m[i]]
        ELSE Append(m, <<last, id>>)

\* idMap[recordName] = id: a new key is appended, an existing key keeps its place
IdMapSet(m, name, id) ==
    IF HasKey(m, name)
    THEN [i \in 1..Len(m) |-> IF m[i][1] = name THEN <<name, id>> ELSE m[i]]
    ELSE Append(m, <<name, id>>)

\* the first configured name with a falsy id, or NoId when every name has one
FirstMissing(names, m) ==
    IF \E i \in 1..Len(names) : Get(m, names[i]) = NoId
    THEN names[CHOOSE i \in 1..Len(names) :
                 /\ Get(m, names[i]) = NoId
                 /\ \A j \in 1..(i - 1) : Get(m, names[j]) # NoId]
    ELSE NoId

\* the ids handed to updateDNSRecord: Object.values(recordIds) in part_000,
\* the array Promise.all resolved with (one slot per name) in cdu.ts
RecordIdsArg(names, m) ==
    IF variant = "part_000"
    THEN [i \in 1..Len(m) |-> m[i][2]]
    ELSE [i \in 1..Len(names) |-> Get(m, names[i])]

\* faulty variant: the body is built from the cache at the time of sending
UpdateRequests_fromCache(zid, ids, ip) ==
    [i \in 1..Len(ids) |-> [zone |-> zid, rid |-> ids[i], content |-> cache]]

\* updateDNSRecord: one PATCH per element of recordIds, all with the same body
UpdateRequests(zid, ids, ip) ==
    [i \in 1..Len(ids) |-> [zone |-> zid, rid |-> ids[i], content |-> ip]]

\* faulty variant: ids are remembered once a pass has succeeded, and no name is
\* looked up again
LookupRequests_cached(zid, names) ==
    IF \E q \in Passes : pc[q] = "Success"
    THEN <<>>
    ELSE [i \in 1..Len(names) |-> [zone |-> zid, name |-> names[i]]]

\* getRecordIds: one GET per element of recordNames
LookupRequests(zid, names) ==
    [i \in 1..Len(names) |-> [zone |-> zid, name |-> names[i]]]

\* ---------------------------------------------------------- initial state
Init ==
    /\ missing \in RequiredOptions \cup {"none"}
    /\ mainState = "main"
    /\ alive = TRUE
    /\ overlap = FALSE
    /\ cacheAtUpdate = [p \in Passes |-> ""]
    /\ variant \in {"part_000", "cdu"}
    /\ recordNames \in {SubSeq(NamePool, 1, n) :
                          n \in 1..Min(MaxRecords, Len(NamePool))}
    /\ cache = Absent
    /\ nTicks = 0
    /\ pc = [p \in Passes |-> "idle"]
    /\ currentIp = [p \in Passes |-> ""]
    /\ previousIp = [p \in Passes |-> ""]
    /\ zoneId = [p \in Passes |-> ""]
    /\ idMap = [p \in Passes |-> <<>>]
    /\ error = [p \in Passes |-> NoError]
    /\ pendingLookups = [p \in Passes |-> {}]
    /\ pendingUpdates = [p \in Passes |-> {}]
    /\ zoneReqs = [p \in Passes |-> <<>>]
    /\ lookupReqs = [p \in Passes |-> <<>>]
    /\ updateReqs = [p \in Passes |-> <<>>]
    /\ lookupReplies = [p \in Passes |-> {}]
    /\ lookupFailures = [p \in Passes |-> {}]
    /\ updateFailures = [p \in Passes |-> {}]
    /\ recAddr = [r \in {ProviderRecordId(NamePool[i]) : i \in 1..Len(NamePool)}
                    |-> OldAddr]
    /\ appliedBy = [r \in {ProviderRecordId(NamePool[i]) : i \in 1..Len(NamePool)}
                    |-> 0]
    /\ cmpOrder = <<>>
    /\ recAtCompare = [p \in Passes |-> <<>>]

\* ---------------------------------------------------------- actions
\* main: throw when a required option is missing (main().catch logs it and
\* no job exists), otherwise create the CronJob and start it.
Main ==
    /\ mainState = "main"
    /\ mainState' = IF ConfigComplete(missing) THEN "started" ELSE "rejected"
    /\ UNCHANGED <<missing, alive, overlap, cacheAtUpdate, variant, recordNames, cache,
                   nTicks, passVars, netVars, logVars, providerVars, histVars>>

\* The callback's promise rejected and nothing handles it (main().catch only
\* covers main's own promise): the runtime may end the process.
UnhandledRejection ==
    /\ alive
    /\ \E p \in Passes : pc[p] = "Failed"
    /\ alive' = FALSE
    /\ UNCHANGED <<missing, mainState, overlap, cacheAtUpdate, variant, recordNames,
                   cache, nTicks, passVars, netVars, logVars, providerVars,
                   histVars>>

\* The cron job fires: the callback starts and suspends in getCurrentIp's fetch.
Tick ==
    /\ mainState = "started" /\ alive
    /\ nTicks < MaxPasses
    /\ nTicks' = nTicks + 1
    /\ pc' = [pc EXCEPT ![nTicks + 1] = "getCurrentIp"]
    /\ overlap' = (overlap \/ \E p \in Passes : Live(p))
    /\ UNCHANGED <<procVars, cacheAtUpdate, variant, recordNames, cache,
                   currentIp, previousIp, zoneId,
                   idMap, error, netVars, logVars, providerVars, histVars>>

\* api.ipify.org answers: compare with the cache, store, start the zone lookup.
IpResponse(p, res) ==
    /\ alive
    /\ pc[p] = "getCurrentIp"
    /\ UNCHANGED <<procVars, overlap, cacheAtUpdate, variant, recordNames, nTicks, zoneId, idMap, netVars,
                   lookupReqs, updateReqs, lookupReplies, lookupFailures,
                   updateFailures, providerVars>>
    /\ IF res.kind = "neterr"
       THEN /\ pc' = [pc EXCEPT ![p] = "Failed"]
            /\ error' = [error EXCEPT ![p] = FetchError("getCurrentIp")]
            /\ UNCHANGED <<cache, currentIp, previousIp, zoneReqs, histVars>>
       ELSE LET ip == getCurrentIp(res)
                prev == cache
            IN  /\ currentIp' = [currentIp EXCEPT ![p] = ip]
                /\ previousIp' = [previousIp EXCEPT ![p] = prev]
                /\ cmpOrder' = Append(cmpOrder, p)
                /\ recAtCompare' = [recAtCompare EXCEPT ![p] = recAddr]
                /\ UNCHANGED error
                /\ IF SkipUpdate(prev, ip)
                   THEN /\ pc' = [pc EXCEPT ![p] = "NoChange"]
                        /\ UNCHANGED <<cache, zoneReqs>>
                   ELSE /\ cache' = CacheSet(cache, ip)
                        /\ zoneReqs' = [zoneReqs EXCEPT ![p] =
                              Append(@, [zone |-> Zone, cacheAtRequest |-> cache'])]
                        /\ pc' = [pc EXCEPT ![p] = "getZoneId"]

\* The provider answers the zone lookup: check the id, start the record lookups.
ZoneResponse(p, res) ==
    /\ alive
    /\ pc[p] = "getZoneId"
    /\ UNCHANGED <<procVars, overlap, cacheAtUpdate, variant, recordNames, cache, nTicks, currentIp, previousIp,
                   idMap, pendingUpdates, zoneReqs, updateReqs, lookupReplies,
                   lookupFailures, updateFailures, providerVars, histVars>>
    /\ IF ResponseFails(res)
       THEN /\ pc' = [pc EXCEPT ![p] = "Failed"]
            /\ error' = [error EXCEPT ![p] =
                  IF res.kind = "neterr" THEN FetchError("getZoneId")
                  ELSE [at |-> "getZoneId", msg |-> "failed to find zone",
                        arg |-> Zone]]
            /\ UNCHANGED <<zoneId, pendingLookups, lookupReqs>>
       ELSE LET zid == FirstId(res)
            IN  /\ zoneId' = [zoneId EXCEPT ![p] = zid]
                /\ IF ZoneChecked /\ zid = NoId
                   THEN /\ pc' = [pc EXCEPT ![p] = "Failed"]
                        /\ error' = [error EXCEPT ![p] =
                              [at |-> "zoneCheck", msg |-> "doesn't exist",
                               arg |-> Zone]]
                        /\ UNCHANGED <<pendingLookups, lookupReqs>>
                   ELSE /\ pc' = [pc EXCEPT ![p] = "getRecordIds"]
                        /\ lookupReqs' = [lookupReqs EXCEPT ![p] =
                              LookupRequests(zid, recordNames)]
                        /\ pendingLookups' = [pendingLookups EXCEPT ![p] =
                              Range(recordNames)]
                        /\ UNCHANGED error

\* The provider answers one record lookup.  A failed lookup rejects the
\* Promise.all the pass awaits; a successful one writes idMap, and the last of
\* them lets the pass validate and start the updates.  Once Promise.all has
\* rejected, idMap is unreachable: a late answer only leaves the network.
LookupResponse(p, name, res) ==
    /\ alive
    /\ name \in pendingLookups[p]
    /\ pendingLookups' = [pendingLookups EXCEPT ![p] = @ \ {name}]
    /\ UNCHANGED <<procVars, overlap, variant, recordNames, cache, nTicks, currentIp, previousIp,
                   zoneId, zoneReqs, lookupReqs, updateFailures, providerVars,
                   histVars>>
    /\ IF pc[p] # "getRecordIds"
       THEN UNCHANGED <<pc, error, idMap, lookupReplies, lookupFailures,
                        pendingUpdates, updateReqs, cacheAtUpdate>>
       ELSE
         /\ lookupFailures' = [lookupFailures EXCEPT ![p] =
               IF res.kind # "ok" THEN @ \cup {name} ELSE @]
         /\ IF ResponseFails(res)
            THEN /\ UNCHANGED <<idMap, lookupReplies, pendingUpdates, updateReqs,
                                cacheAtUpdate>>
                 /\ pc' = [pc EXCEPT ![p] = "Failed"]
                 /\ error' = [error EXCEPT ![p] =
                       IF res.kind = "neterr" THEN FetchError("getRecordIds")
                       ELSE [at |-> "getRecordIds",
                             msg |-> "failed to find record", arg |-> name]]
            ELSE LET id == FirstId(res)
                     m == IdMapSet(idMap[p], name, id)
                 IN  /\ idMap' = [idMap EXCEPT ![p] = m]
                     /\ lookupReplies' = [lookupReplies EXCEPT ![p] =
                           @ \cup {<<name, id>>}]
                     /\ IF PromiseAllFulfilled(pendingLookups'[p])
                        THEN IF RecordsChecked /\ FirstMissing(recordNames, m) # NoId
                             THEN /\ pc' = [pc EXCEPT ![p] = "Failed"]
                                  /\ error' = [error EXCEPT ![p] =
                                        [at |-> "recordCheck",
                                         msg |-> "doesn't exist",
                                         arg |-> FirstMissing(recordNames, m)]]
                                  /\ UNCHANGED <<pendingUpdates, updateReqs,
                                                 cacheAtUpdate>>
                             ELSE LET ids == RecordIdsArg(recordNames, m)
                                  IN  /\ pc' = [pc EXCEPT ![p] = "updateDNSRecord"]
                                      /\ updateReqs' = [updateReqs EXCEPT ![p] =
                                            UpdateRequests(zoneId[p], ids,
                                                           currentIp[p])]
                                      /\ pendingUpdates' =
                                            [pendingUpdates EXCEPT ![p] =
                                               1..Len(ids)]
                                      /\ cacheAtUpdate' =
                                            [cacheAtUpdate EXCEPT ![p] = cache]
                                      /\ UNCHANGED error
                        ELSE UNCHANGED <<pc, error, pendingUpdates, updateReqs,
                                         cacheAtUpdate>>

\* The provider answers one update.  An ok answer means the record now holds
\* the content of the request.  A failed update rejects the Promise.all the pass
\* awaits (if it still awaits it); the last successful one ends the pass.
UpdateResponse(p, i, res) ==
    /\ alive
    /\ i \in pendingUpdates[p]
    /\ pendingUpdates' = [pendingUpdates EXCEPT ![p] = @ \ {i}]
    /\ UNCHANGED <<procVars, overlap, cacheAtUpdate, variant, recordNames, cache, nTicks, currentIp, previousIp,
                   zoneId, idMap, pendingLookups, zoneReqs, lookupReqs,
                   updateReqs, lookupReplies, lookupFailures, histVars>>
    /\ IF res.kind = "ok"
       THEN /\ recAddr' = [recAddr EXCEPT ![updateReqs[p][i].rid] =
                  updateReqs[p][i].content]
            /\ appliedBy' = [appliedBy EXCEPT ![updateReqs[p][i].rid] = p]
       ELSE UNCHANGED providerVars
    /\ IF pc[p] # "updateDNSRecord"
       THEN UNCHANGED <<pc, error, updateFailures>>
       ELSE
         /\ updateFailures' = [updateFailures EXCEPT ![p] =
               IF res.kind # "ok" THEN @ \cup {i} ELSE @]
         /\ IF ResponseFails(res)
            THEN /\ pc' = [pc EXCEPT ![p] = "Failed"]
                 /\ error' = [error EXCEPT ![p] =
                       IF res.kind = "neterr" THEN FetchError("updateDNSRecord")
                       ELSE [at |-> "updateDNSRecord",
                             msg |-> "failed to update DNS record",
                             arg |-> updateReqs[p][i].rid]]
            ELSE /\ UNCHANGED error
                 /\ IF PromiseAllFulfilled(pendingUpdates'[p])
                    THEN pc' = [pc EXCEPT ![p] = "Success"]
                    ELSE UNCHANGED pc

Next ==
    \/ Main
    \/ UnhandledRejection
    \/ Tick
    \/ \E p \in Passes : \E res \in IpResponses : IpResponse(p, res)
    \/ \E p \in Passes : \E res \in ZoneResponses : ZoneResponse(p, res)
    \/ \E p \in Passes : \E name \in pendingLookups[p] :
           \E res \in LookupResponses(zoneId[p], name) :
               LookupResponse(p, name, res)
    \/ \E p \in Passes : \E i \in pendingUpdates[p] :
           \E res \in UpdateResponses(updateReqs[p][i].rid) :
               UpdateResponse(p, i, res)

Spec == Init /\ [][Next]_vars

\* ---------------------------------------------------------- claims
Compared(p) == \E i \in 1..Len(cmpOrder) : cmpOrder[i] = p
Pos(p) == CHOOSE i \in 1..Len(cmpOrder) : cmpOrder[i] = p
NoProviderRequests(p) ==
    /\ zoneReqs[p] = <<>>
    /\ lookupReqs[p] = <<>>
    /\ updateReqs[p] = <<>>
\* the lookup of some configured name returned zero matches
HasMiss(p) == \E n \in Range(recordNames) : <<n, NoId>> \in lookupReplies[p]
\* the pass failed after it wrote the cache
FailedAfterWrite(p) == pc[p] = "Failed" /\ error[p].at # "getCurrentIp"
\* q compared after p, and every pass that compared after p up to q observed
\* the address p observed
SameSince(p, q) ==
    /\ Compared(p) /\ Compared(q) /\ Pos(q) > Pos(p)
    /\ \A k \in (Pos(p) + 1)..Pos(q) : currentIp[cmpOrder[k]] = currentIp[p]

\* C1: a pass (that observed a proper address) in which the lookup of some
\* configured name returned zero matches issues no update request and ends
\* Failed.
C1_ValidationGate ==
    \A p \in Passes :
        (currentIp[p] \in Addrs /\ HasMiss(p)) =>
            /\ updateReqs[p] = <<>>
            /\ pc[p] \in {"getRecordIds", "Failed"}

\* State part of C2: a pass that observed the address the cache held is in
\* NoChange and has issued no provider request; of two passes that compare one
\* after the other and observe the same address, the second issues no
\* provider request.
C2_NoOpState ==
    /\ \A p \in Passes :
          (Compared(p) /\ previousIp[p] = currentIp[p]) =>
              /\ pc[p] = "NoChange"
              /\ NoProviderRequests(p)
              /\ pendingLookups[p] = {} /\ pendingUpdates[p] = {}
    /\ \A i \in 2..Len(cmpOrder) :
          currentIp[cmpOrder[i]] = currentIp[cmpOrder[i - 1]] =>
              /\ pc[cmpOrder[i]] = "NoChange"
              /\ NoProviderRequests(cmpOrder[i])
C2_NoOpStep ==
    \A p \in Passes :
        (pc[p] = "getCurrentIp" /\ pc'[p] \notin {"getCurrentIp", "Failed"}
            /\ currentIp'[p] = cache) =>
            /\ pc'[p] = "NoChange"
            /\ cache' = cache
            /\ zoneReqs' = zoneReqs
\* C2: the no-op holds in every state (C2_NoOpState) and the comparing step
\* of a pass that observes the cached address leaves the cache and the
\* requests as they were (C2_NoOpStep).
C2_IdempotentNoOp == [](C2_NoOpState) /\ [][C2_NoOpStep]_vars
C2_Witness ==
    \E i \in 2..Len(cmpOrder) :
        /\ currentIp[cmpOrder[i]] = currentIp[cmpOrder[i - 1]]
        /\ pc[cmpOrder[i]] = "NoChange"
        /\ pc[cmpOrder[i - 1]] = "Success"

\* C3: the body of a non-success answer of the address service is never taken
\* as the public address: it is never a pass's currentIp, never in the cache,
\* never the content of an update, and the pass that received it ends Failed
\* without a provider request.
C3_ResolverFailure ==
    /\ cache # ErrBody
    /\ \A p \in Passes :
          /\ currentIp[p] # ErrBody
          /\ \A i \in 1..Len(updateReqs[p]) : updateReqs[p][i].content # ErrBody
          /\ error[p].at = "getCurrentIp" =>
                (pc[p] = "Failed" /\ NoProviderRequests(p))

\* C4: a pass (that observed a proper address) whose zone lookup found no
\* zone, or was answered with a failure, ends Failed and issues no record
\* lookup and no update.
C4_ZoneFailure ==
    \A p \in Passes :
        (currentIp[p] \in Addrs
            /\ (zoneId[p] = NoId \/ error[p].at = "getZoneId")) =>
            /\ pc[p] = "Failed"
            /\ lookupReqs[p] = <<>>
            /\ updateReqs[p] = <<>>

\* C5: a pass (that observed a proper address and resolved every name) that
\* starts the update step issues one update request per resolved record id,
\* whatever fails; when an update is answered with a failure the pass is
\* reported Failed with an error naming a record id whose update failed.
C5_UpdateIsolation ==
    \A p \in Passes :
        currentIp[p] \in Addrs =>
        /\ (~HasMiss(p) /\ (pc[p] \in {"updateDNSRecord", "Success"}
                              \/ error[p].at = "updateDNSRecord"))
              => /\ Len(updateReqs[p]) = Len(recordNames)
                 /\ \A n \in Range(recordNames) :
                       Cardinality({i \in 1..Len(updateReqs[p]) :
                           updateReqs[p][i].rid = Get(idMap[p], n)}) = 1
        /\ (~HasMiss(p) /\ updateFailures[p] # {}) =>
              /\ pc[p] = "Failed"
              /\ error[p].msg = "failed to update DNS record"
              /\ \E i \in updateFailures[p] : error[p].arg = updateReqs[p][i].rid

\* C6: a pass that observes an address other than the cached one has set the
\* cache to it when the zone lookup request goes out; when such a pass has
\* failed and no other pass has compared since, the cache holds its address.
C6_CacheWriteTiming ==
    \A p \in Passes :
        /\ (Compared(p) /\ previousIp[p] # currentIp[p]) =>
              /\ Len(zoneReqs[p]) = 1
              /\ zoneReqs[p][1].cacheAtRequest = currentIp[p]
        /\ (FailedAfterWrite(p) /\ cmpOrder[Len(cmpOrder)] = p) =>
              cache = currentIp[p]
C6_Witness ==
    \E p \in Passes :
        /\ pc[p] = "Failed" /\ error[p].at = "getZoneId"
        /\ previousIp[p] \in Addrs
        /\ cache = currentIp[p] /\ cache # previousIp[p]

\* C7 (as claimed): after a pass failed past the cache write, every following
\* pass that observes the same address ends in NoChange without an update, and
\* the provider's records still hold what they held when the failed pass
\* compared.
C7_NoRetryRecordsUntouched ==
    \A p \in Passes :
        (FailedAfterWrite(p) /\ currentIp[p] \in Addrs
            /\ Pos(p) < Len(cmpOrder)
            /\ \A k \in (Pos(p) + 1)..Len(cmpOrder) :
                  currentIp[cmpOrder[k]] = currentIp[p]) =>
            /\ \A q \in Passes :
                  SameSince(p, q) => (pc[q] = "NoChange" /\ updateReqs[q] = <<>>)
            /\ recAddr = recAtCompare[p]

\* C7 (amended): after a pass failed past the cache write, every following
\* pass that observes the same address ends in NoChange, issues no update, and
\* has changed no record; a record that differs from what it held when the
\* failed pass compared was written by the failed pass itself or by a pass
\* that compared before it.
C7_NoRetry ==
    \A p \in Passes :
        (FailedAfterWrite(p)
            /\ \A k \in (Pos(p) + 1)..Len(cmpOrder) :
                  currentIp[cmpOrder[k]] = currentIp[p]) =>
            /\ \A q \in Passes :
                  SameSince(p, q) =>
                      /\ pc[q] = "NoChange"
                      /\ updateReqs[q] = <<>>
                      /\ \A r \in DOMAIN appliedBy : appliedBy[r] # q
            /\ \A r \in DOMAIN recAddr :
                  recAddr[r] # recAtCompare[p][r] =>
                      /\ appliedBy[r] \in Passes
                      /\ Compared(appliedBy[r])
                      /\ Pos(appliedBy[r]) <= Pos(p)
C7_Witness ==
    \E p, q \in Passes :
        /\ FailedAfterWrite(p) /\ SameSince(p, q)
        /\ pc[q] = "NoChange"
        /\ \E r \in DOMAIN recAddr : recAddr[r] # currentIp[p]

\* C8: getRecordIds issues one lookup per configured name, and when every
\* lookup has succeeded the map has one entry per configured name, each
\* holding the id the provider answered for that name.
C8_ConcurrentResolution ==
    \A p \in Passes :
        /\ lookupReqs[p] # <<>> =>
              /\ Len(lookupReqs[p]) = Len(recordNames)
              /\ \A i \in 1..Len(recordNames) :
                    lookupReqs[p][i].name = recordNames[i]
        /\ (lookupReqs[p] # <<>> /\ pendingLookups[p] = {}
               /\ lookupFailures[p] = {}) =>
              /\ Len(idMap[p]) = Len(recordNames)
              /\ Range(idMap[p]) = lookupReplies[p]
              /\ {pr[1] : pr \in lookupReplies[p]} = Range(recordNames)
C8_Witness ==
    \E p \in Passes :
        /\ Len(recordNames) = 2
        /\ lookupReqs[p] # <<>> /\ pendingLookups[p] = {}
        /\ lookupFailures[p] = {}
        /\ idMap[p][1][1] = recordNames[2]
        /\ idMap[p][1][2] # NoId

\* C9: when a record lookup is answered with a failure, the pass ends Failed
\* inside getRecordIds and issues no update, whatever the other lookups
\* answered or will answer.
C9_LookupTransportFailure ==
    \A p \in Passes :
        lookupFailures[p] # {} =>
            /\ pc[p] = "Failed"
            /\ error[p].at = "getRecordIds"
            /\ updateReqs[p] = <<>>
            /\ pendingUpdates[p] = {}
C9_Witness ==
    \E p \in Passes :
        /\ lookupFailures[p] # {}
        /\ lookupReplies[p] # {}
        /\ pc[p] = "Failed"

\* C10 (as claimed): a pass that has reached NoChange, Success or Failed has
\* no lookup or update request in flight.
C10_BarrierAllSettled ==
    \A p \in Passes :
        (pc[p] \in Terminal /\ currentIp[p] \in Addrs /\ ~HasMiss(p)) => (pendingLookups[p] = {} /\ pendingUpdates[p] = {})

\* C10 (amended): a pass goes past record resolution only when every lookup
\* has been answered, and ends in Success only when every update has been
\* answered; a pass in NoChange or Success has no request in flight, and a
\* Failed pass has requests in flight only if one of its lookups or updates
\* was answered with a failure.
C10_FanInBarrier ==
    \A p \in Passes :
        /\ (pc[p] \in {"updateDNSRecord", "Success"}
               \/ error[p].at \in {"recordCheck", "updateDNSRecord"}) =>
              (pendingLookups[p] = {} /\ Len(idMap[p]) = Len(recordNames))
        /\ pc[p] \in {"NoChange", "Success"} =>
              (pendingLookups[p] = {} /\ pendingUpdates[p] = {})
        /\ (pc[p] = "Failed" /\ pendingLookups[p] # {}) => lookupFailures[p] # {}
        /\ (pc[p] = "Failed" /\ pendingUpdates[p] # {}) => updateFailures[p] # {}
C10_Witness ==
    \E p \in Passes :
        /\ Len(recordNames) = 2
        /\ pc[p] = "Success"
        /\ pendingUpdates[p] = {}
        /\ \E q \in Passes : pc[q] = "Failed" /\ pendingUpdates[q] # {}

\* the pass went past the comparison with an address that differs from the cache
Changed(p) == Compared(p) /\ previousIp[p] # currentIp[p]
\* the ids the provider knows the configured records by
ConfiguredIds == {ProviderRecordId(n) : n \in Range(recordNames)}
\* the record ids the update requests of pass p are addressed to
UpdatedIds(p) == {updateReqs[p][i].rid : i \in 1..Len(updateReqs[p])}

\* C11: passes are serialized: no tick starts a pass while an earlier pass has
\* neither returned nor thrown.
C11_PassesSerialized == ~overlap

\* C12: an error ends one pass only: the failed pass has issued no request
\* twice, and the process with its scheduler is still running, so that the
\* next tick starts a new pass.
C12_ErrorsTerminalForPassOnly ==
    \A p \in Passes :
        pc[p] = "Failed" =>
            /\ Len(zoneReqs[p]) <= 1
            /\ Len(lookupReqs[p]) <= Len(recordNames)
            /\ Len(updateReqs[p]) <= Len(recordNames)
            /\ mainState = "started"
            /\ alive

\* C13: every pass that observed a changed address issues exactly one zone
\* lookup; once it is past the zone step it has issued one record lookup per
\* configured name, in the zone it resolved itself and whatever earlier passes
\* resolved; its updates carry the zone id and the record ids it resolved
\* itself.
C13_FullPipelineNoIdCaching ==
    \A p \in Passes :
        /\ Changed(p) => Len(zoneReqs[p]) = 1
        /\ (pc[p] \in {"getRecordIds", "updateDNSRecord", "Success"}
               \/ error[p].at \in {"getRecordIds", "recordCheck", "updateDNSRecord"}) =>
              /\ Len(zoneReqs[p]) = 1
              /\ Len(lookupReqs[p]) = Len(recordNames)
              /\ \A i \in 1..Len(recordNames) :
                     lookupReqs[p][i] = [zone |-> zoneId[p], name |-> recordNames[i]]
        /\ updateReqs[p] # <<>> =>
              /\ Len(lookupReqs[p]) = Len(recordNames)
              /\ \A i \in 1..Len(updateReqs[p]) :
                     /\ updateReqs[p][i].zone = zoneId[p]
                     /\ \E n \in Range(recordNames) :
                            updateReqs[p][i].rid = Get(idMap[p], n)
C13_Witness ==
    /\ cmpOrder = <<1, 2>>
    /\ currentIp[1] = "A1" /\ currentIp[2] = "A2"
    /\ pc[1] = "Success" /\ pc[2] = "Success"
    /\ Len(zoneReqs[1]) = 1 /\ Len(zoneReqs[2]) = 1
    /\ Len(lookupReqs[1]) = Len(recordNames)
    /\ Len(lookupReqs[2]) = Len(recordNames)
    /\ \A r \in ConfiguredIds : recAddr[r] = "A2"

\* C14: a pass (that observed a proper address) that issues updates issues
\* exactly one per configured record: never fewer, never more, and never one
\* addressed to an absent record id.
C14_ExactlyConfiguredSet ==
    \A p \in Passes :
        (currentIp[p] \in Addrs /\ updateReqs[p] # <<>>) =>
            /\ Len(updateReqs[p]) = Len(recordNames)
            /\ NoId \notin UpdatedIds(p)
            /\ UpdatedIds(p) = ConfiguredIds

\* C15: when a required option is missing, main fails before the cron job
\* exists: the job is never started, no pass runs and no request is issued.
C15_StartupValidation ==
    missing # "none" =>
        /\ mainState # "started"
        /\ nTicks = 0
        /\ \A p \in Passes : pc[p] = "idle" /\ NoProviderRequests(p)
C15_Witness == missing # "none" /\ mainState = "rejected"

\* C16: the steps of a pass (that observed a proper address) are ordered: a
\* record lookup is issued only with a zone id the zone lookup returned, and
\* an update is issued only when every record lookup has been answered with
\* success and every configured name has an id.
C16_StepOrdering ==
    \A p \in Passes :
        currentIp[p] \in Addrs =>
            /\ lookupReqs[p] # <<>> =>
                  /\ Len(zoneReqs[p]) = 1
                  /\ zoneId[p] = ZoneIdOfProvider
                  /\ \A i \in 1..Len(lookupReqs[p]) :
                         lookupReqs[p][i].zone = ZoneIdOfProvider
            /\ updateReqs[p] # <<>> =>
                  /\ Len(lookupReqs[p]) = Len(recordNames)
                  /\ pendingLookups[p] = {}
                  /\ lookupFailures[p] = {}
                  /\ FirstMissing(recordNames, idMap[p]) = NoId

\* C17: every update request carries the address its own pass obtained from
\* the address service, whatever the cache holds and whatever address another
\* pass obtained.
C17_UpdatePayload ==
    \A p \in Passes :
        \A i \in 1..Len(updateReqs[p]) :
            /\ updateReqs[p][i].content = currentIp[p]
            /\ updateReqs[p][i].content # previousIp[p]
C17_Witness ==
    \E p \in Passes :
        /\ updateReqs[p] # <<>>
        /\ currentIp[p] \in Addrs
        /\ cacheAtUpdate[p] \in Addrs \ {currentIp[p]}
        /\ \E q \in Passes \ {p} : currentIp[q] = cacheAtUpdate[p]

\* C18: the cache changes only in the comparison step of a pass, to the
\* address that pass observed and only when it differs from what the cache
\* held; a pass that goes from the comparison to the zone lookup has written
\* its address; every other step, failures included, leaves the cache alone;
\* a pass comes to the comparison once, from its tick.
C18_CacheFrameStep ==
    /\ cache' # cache =>
          \E p \in Passes :
              /\ pc[p] = "getCurrentIp" /\ pc'[p] = "getZoneId"
              /\ previousIp'[p] = cache
              /\ previousIp'[p] # currentIp'[p]
              /\ cache' = currentIp'[p]
    /\ \A p \in Passes :
          (pc[p] = "getCurrentIp" /\ pc'[p] = "getZoneId") => cache' = currentIp'[p]
    /\ \A p \in Passes :
          (pc[p] # "getCurrentIp" \/ pc'[p] \in {"NoChange", "Failed"}) =>
              (pc'[p] # pc[p] => cache' = cache)
    /\ \A p \in Passes :
          (pc'[p] = "getCurrentIp" /\ pc[p] # "getCurrentIp") => pc[p] = "idle"
C18_CacheFrame == [][C18_CacheFrameStep]_vars
C18_Witness ==
    \E p \in Passes :
        /\ previousIp[p] \in Addrs
        /\ currentIp[p] \in Addrs
        /\ pc[p] = "Failed" /\ error[p].at = "updateDNSRecord"
        /\ pendingUpdates[p] = {}
        /\ cache = currentIp[p]

\* C19: comparison and write are one step: of the passes that observed the
\* same address one after the other, with no different address observed in
\* between, only the first goes on to the zone lookup; the others end in
\* NoChange without a request.
C19_AtomicCompareAndSet ==
    \A p \in Passes : \A q \in Passes :
        SameSince(p, q) =>
            /\ ~(zoneReqs[p] # <<>> /\ zoneReqs[q] # <<>>)
            /\ pc[q] = "NoChange"
            /\ NoProviderRequests(q)
C19_Witness ==
    /\ cmpOrder = <<2, 1>>
    /\ currentIp[1] \in Addrs
    /\ currentIp[2] = currentIp[1]
    /\ zoneReqs[2] # <<>>
    /\ pc[1] = "NoChange"

\* C20: when every pass observed a proper address, once a pass has ended in
\* Success with address A every configured record holds A for as long as no
\* pass that compared after it has issued an update: no update of an earlier
\* pass is applied after it.
C20_NoStaleOverwrite ==
    \A p \in Passes :
        (/\ \A q \in Passes : Compared(q) => currentIp[q] \in Addrs
         /\ pc[p] = "Success"
         /\ \A q \in Passes :
                (Compared(q) /\ Pos(q) > Pos(p)) => updateReqs[q] = <<>>) =>
            \A r \in ConfiguredIds : recAddr[r] = currentIp[p]

====
